---- MODULE Spec2Model ----
(***************************************************************************)
(* Model of Resources/random_chess_puzzles.py: a one-shot pipeline         *)
(*   Loader -> Filter -> Sampler -> Mapper -> Writer                       *)
(* A text is a sequence of one-character strings; a row is a sequence of   *)
(* texts.  Python index k of a row is TLA+ index k+1.                      *)
(***************************************************************************)
EXTENDS Integers, Sequences, FiniteSets, TLC

VARIABLES rows, num_puzzles, rows_with_solution, subset, puzzles,
          i, pc, err, console, out_open, out_file

vars == <<rows, num_puzzles, rows_with_solution, subset, puzzles,
          i, pc, err, console, out_open, out_file>>

\* ---------------------------------------------------------------- bounds
MaxRows == 3
MaxN == 2
MaxRowChars == 3

\* ------------------------------------------------------------------ text
Whitespace == {" ", "\t", "\n", "\r", "\f"}

IsSpace(c) == c \in Whitespace

Digits == {"0", "1", "2", "3", "4", "5", "6", "7", "8", "9"}

DigitVal(c) ==
  CASE c = "0" -> 0 [] c = "1" -> 1 [] c = "2" -> 2 [] c = "3" -> 3
    [] c = "4" -> 4 [] c = "5" -> 5 [] c = "6" -> 6 [] c = "7" -> 7
    [] c = "8" -> 8 [] c = "9" -> 9

Last(s) == s[Len(s)]

Front(s) == SubSeq(s, 1, Len(s) - 1)

RECURSIVE lstrip(_)
lstrip(s) ==
  IF s = <<>> THEN s
  ELSE IF IsSpace(Head(s)) THEN lstrip(Tail(s)) ELSE s

RECURSIVE rstrip(_)
rstrip(s) ==
  IF s = <<>> THEN s
  ELSE IF IsSpace(Last(s)) THEN rstrip(Front(s)) ELSE s

\* str.strip(): drop leading and trailing whitespace
strip(s) == rstrip(lstrip(s))

RECURSIVE SplitAcc(_, _, _)
SplitAcc(s, cur, acc) ==
  IF s = <<>>
    THEN (IF cur = <<>> THEN acc ELSE Append(acc, cur))
  ELSE IF IsSpace(Head(s))
    THEN SplitAcc(Tail(s), <<>>, IF cur = <<>> THEN acc ELSE Append(acc, cur))
  ELSE SplitAcc(Tail(s), Append(cur, Head(s)), acc)

\* str.split() without separator: maximal runs of non-whitespace
split(s) == SplitAcc(s, <<>>, <<>>)

\* bool(str): a text is truthy iff it is non-empty
Truthy(s) == s # <<>>

\* the text after an optional leading sign
Unsigned(t) == IF t # <<>> /\ Head(t) \in {"+", "-"} THEN Tail(t) ELSE t

\* digits, with single underscores allowed between two digits
DigitBody(b) ==
  /\ b # <<>>
  /\ \A k \in 1..Len(b) : b[k] \in Digits \cup {"_"}
  /\ b[1] \in Digits
  /\ b[Len(b)] \in Digits
  /\ \A k \in 1..(Len(b) - 1) : ~(b[k] = "_" /\ b[k + 1] = "_")

\* int(str) accepts: whitespace, optional sign, digit body, whitespace
IsIntLiteral(s) == DigitBody(Unsigned(strip(s)))

RECURSIVE DigitsValue(_, _)
DigitsValue(b, acc) ==
  IF b = <<>> THEN acc
  ELSE IF Head(b) = "_" THEN DigitsValue(Tail(b), acc)
  ELSE DigitsValue(Tail(b), 10 * acc + DigitVal(Head(b)))

\* value of int(s) for a text that int() accepts
int(s) ==
  LET t == strip(s)
      v == DigitsValue(Unsigned(t), 0)
  IN IF Head(t) = "-" THEN 0 - v ELSE v

\* ------------------------------------------------------------ JSON values
JNull == [type |-> "null"]

JInt(n) == [type |-> "int", v |-> n]

JStr(s) == [type |-> "str", v |-> s]

\* ------------------------------------------------------------- pipeline
\* r[k] of the source
Field(r, k) == r[k + 1]

\* the filter without strip(): a blank field counts as a solution
HasSolution_NoStrip(r) == Len(r) > 2 /\ Truthy(Field(r, 2))

\* condition of the list comprehension
HasSolution(r) == Len(r) > 2 /\ Truthy(strip(Field(r, 2)))

RECURSIVE FilterRows_Reversed(_)
FilterRows_Reversed(rs) ==
  IF rs = <<>> THEN <<>>
  ELSE FilterRows_Reversed(Tail(rs))
         \o (IF HasSolution(Head(rs)) THEN <<Head(rs)>> ELSE <<>>)

RECURSIVE FilterRows(_)
FilterRows(rs) ==
  IF rs = <<>> THEN <<>>
  ELSE (IF HasSolution(Head(rs)) THEN <<Head(rs)>> ELSE <<>>)
         \o FilterRows(Tail(rs))

Min(a, b) == IF a < b THEN a ELSE b

\* the sample size without the min(): the whole population
SampleSize_All(n, len) == len

\* the sample size without the min(): always num_puzzles
SampleSize_NoMin(n, len) == n

\* second argument of random.sample
SampleSize(n, len) == Min(n, len)

\* picks with replacement, as random.choices would make them
Samples_WithReplacement(n, k) == [1..k -> 1..n]

\* results of random.sample over a population of n items, k picks:
\* sequences of k distinct positions of the population, in any order
Samples(n, k) ==
  {s \in [1..k -> 1..n] : \A a, b \in 1..k : a # b => s[a] # s[b]}

\* the exception raised while evaluating the dict display for r, if any
MapError(r) ==
  IF Len(r) <= 3 THEN "IndexError"
  ELSE IF Truthy(Field(r, 3)) /\ ~IsIntLiteral(Field(r, 3)) THEN "ValueError"
  ELSE IF Len(r) <= 4 THEN "IndexError"
  ELSE IF Truthy(Field(r, 4)) /\ ~IsIntLiteral(Field(r, 4)) THEN "ValueError"
  ELSE "none"

\* the field kept as text, int() forgotten
OptInt_AsText(s) == IF Truthy(s) THEN JStr(s) ELSE JNull

OptInt(s) == IF Truthy(s) THEN JInt(int(s)) ELSE JNull

\* split(" ") in place of the emptiness test: "".split(" ") is [""]
Themes_SplitSep(r) ==
  IF Len(r) > 7
    THEN (IF Truthy(Field(r, 7)) THEN split(Field(r, 7)) ELSE <<<<>>>>)
    ELSE <<>>

Themes(r) ==
  IF Len(r) > 7 /\ Truthy(Field(r, 7)) THEN split(Field(r, 7)) ELSE <<>>

\* field 8 treated like fields 3, 4 and 7: empty gives the default
Url_EmptyAsNull(r) ==
  IF Len(r) > 8 /\ Truthy(Field(r, 8)) THEN JStr(Field(r, 8)) ELSE JNull

Url(r) == IF Len(r) > 8 THEN JStr(Field(r, 8)) ELSE JNull

\* the dict appended for r
PuzzleRecord(r) ==
  [id |-> Field(r, 0),
   fen |-> Field(r, 1),
   solution |-> split(Field(r, 2)),
   rating |-> OptInt(Field(r, 3)),
   plays |-> OptInt(Field(r, 4)),
   themes |-> Themes(r),
   url |-> Url(r)]

\* the exception swallowed and the row skipped
MapFailure_Skip(e) == [pc |-> "map", err |-> "none", i |-> i + 1]

\* an exception in the loop body is not caught: the run stops there
MapFailure(e) == [pc |-> "error", err |-> e, i |-> i]

\* the row a position of subset refers to
SubsetRow(j) == rows_with_solution[subset[j]]

\* --------------------------------------------------------------- inputs
Chars == {" ", "1", "m", "-", "_"}

TextsUpTo(n) == UNION {[1..k -> Chars] : k \in 0..n}

Ids == {<<"a">>, <<"b">>}

Fen == <<"8", "/", "8">>

Urls == {<<>>, <<"u">>}

\* the header line of the puzzle database, as csv.reader returns it
HeaderRow ==
  <<<<"I", "d">>, <<"F", "E", "N">>, <<"M", "o", "v", "e", "s">>,
    <<"R", "a", "t", "i", "n", "g">>, <<"D", "e", "v">>, <<"P", "o", "p">>,
    <<"N", "b">>, <<"T", "h", "e", "m", "e", "s">>, <<"U", "r", "l">>>>

\* rows of the multi-row files: nine-field rows with a solution, one with
\* a blank field 2, prefixes of 2 and 4 fields, and the header
FullRows ==
  {<<id, Fen, <<"m">>, f3, <<>>, <<>>, <<>>, <<"m">>, <<"u">>>> :
     id \in Ids, f3 \in {<<"1">>, <<"m">>}}

BlankRow == <<<<"a">>, Fen, <<" ">>, <<"1">>, <<>>, <<>>, <<>>, <<"m">>, <<"u">>>>

FileRowLens == {2, 4}

FileRows ==
  FullRows
    \cup {SubSeq(full, 1, n) :
            full \in {f \in FullRows : f[1] = <<"a">> /\ f[4] = <<"1">>},
            n \in FileRowLens}
    \cup {BlankRow, HeaderRow}

Files == UNION {[1..n -> FileRows] : n \in 0..MaxRows}

\* single rows whose fields 2, 3, 4 and 7 hold at most MaxRowChars
\* characters together, cut at every length from 0 to 9 fields
RichFull ==
  {<<<<"a">>, Fen, SubSeq(t, 1, a), SubSeq(t, a + 1, b), SubSeq(t, b + 1, c),
     <<>>, <<>>, SubSeq(t, c + 1, Len(t)), u>> :
     <<t, a, b, c, u>> \in
       {q \in TextsUpTo(MaxRowChars) \X (0..MaxRowChars) \X (0..MaxRowChars)
                \X (0..MaxRowChars) \X Urls :
          q[2] <= q[3] /\ q[3] <= q[4] /\ q[4] <= Len(q[1])}}

RichRows == {SubSeq(full, 1, n) : full \in RichFull, n \in 0..9}

\* ---------------------------------------------------------------- state
NoFile == [exists |-> FALSE, data |-> <<>>]

Start ==
  /\ rows_with_solution = <<>>
  /\ subset = <<>>
  /\ puzzles = <<>>
  /\ i = 1
  /\ pc = "filter"
  /\ err = "none"
  /\ console = <<>>
  /\ out_open = FALSE
  /\ out_file = NoFile

\* after the Loader: rows holds the parsed input file
Init ==
  /\ rows \in Files
  /\ num_puzzles \in 0..MaxN
  /\ Start

InitRow ==
  /\ rows \in {<<r>> : r \in RichRows}
  /\ num_puzzles \in 0..MaxN
  /\ Start

\* -------------------------------------------------------------- actions
Filter ==
  /\ pc = "filter"
  /\ rows_with_solution' = FilterRows(rows)
  /\ console' = Append(console,
                  [line |-> "Rows with solution:",
                   n |-> Len(rows_with_solution')])
  /\ pc' = "sample"
  /\ UNCHANGED <<rows, num_puzzles, subset, puzzles, i, err, out_open, out_file>>

Sample ==
  /\ pc = "sample"
  /\ LET n == Len(rows_with_solution)
         k == SampleSize(num_puzzles, n)
     IN IF k < 0 \/ k > n
          THEN /\ pc' = "error"
               /\ err' = "ValueError"
               /\ UNCHANGED subset
          ELSE /\ subset' \in Samples(n, k)
               /\ pc' = "map"
               /\ UNCHANGED err
  /\ i' = 1
  /\ puzzles' = <<>>
  /\ UNCHANGED <<rows, num_puzzles, rows_with_solution, console,
                 out_open, out_file>>

\* one iteration of the for loop
Mapper ==
  /\ pc = "map"
  /\ i <= Len(subset)
  /\ LET r == SubsetRow(i)
         e == MapError(r)
     IN IF e # "none"
          THEN /\ pc' = MapFailure(e).pc
               /\ err' = MapFailure(e).err
               /\ i' = MapFailure(e).i
               /\ UNCHANGED puzzles
          ELSE /\ puzzles' = Append(puzzles, PuzzleRecord(r))
               /\ i' = i + 1
               /\ UNCHANGED <<pc, err>>
  /\ UNCHANGED <<rows, num_puzzles, rows_with_solution, subset, console,
                 out_open, out_file>>

\* the loop is exhausted; open(output_file, "w") truncates the file
OpenOutput ==
  /\ pc = "map"
  /\ i > Len(subset)
  /\ out_open' = TRUE
  /\ out_file' = [exists |-> TRUE, data |-> <<>>]
  /\ pc' = "dump"
  /\ UNCHANGED <<rows, num_puzzles, rows_with_solution, subset, puzzles,
                 i, err, console>>

\* json.dump(puzzles, f), then the with block closes the file
Dump ==
  /\ pc = "dump"
  /\ out_file' = [exists |-> TRUE, data |-> puzzles]
  /\ out_open' = FALSE
  /\ pc' = "saved"
  /\ UNCHANGED <<rows, num_puzzles, rows_with_solution, subset, puzzles,
                 i, err, console>>

PrintSaved ==
  /\ pc = "saved"
  /\ console' = Append(console, [line |-> "Saved", n |-> Len(puzzles)])
  /\ pc' = "done"
  /\ UNCHANGED <<rows, num_puzzles, rows_with_solution, subset, puzzles,
                 i, err, out_open, out_file>>

Next == Filter \/ Sample \/ Mapper \/ OpenOutput \/ Dump \/ PrintSaved

Spec == Init /\ [][Next]_vars

SpecRow == InitRow /\ [][Next]_vars

TypeOK ==
  /\ pc \in {"filter", "sample", "map", "dump", "saved", "done", "error"}
  /\ err \in {"none", "IndexError", "ValueError"}
  /\ i \in 1..(Len(subset) + 1)
  /\ Len(puzzles) <= Len(subset)

\* ------------------------------------------------- vocabulary of the claims
\* a text with at least one non-whitespace character
NonBlank(s) == \E k \in 1..Len(s) : ~IsSpace(s[k])

\* a row with an index 2 that is non-blank after trimming
Qualifies(r) == Len(r) >= 3 /\ NonBlank(r[3])

\* positions of the input rows that qualify
QualIdx == {k \in 1..Len(rows) : Qualifies(rows[k])}

QualCount == Cardinality(QualIdx)

\* the input position of the j-th qualifying row
NthQual(j) ==
  CHOOSE k \in QualIdx : Cardinality({m \in QualIdx : m <= k}) = j

\* the loop body has run for position j of subset
Acted(j) == j \in DOMAIN subset /\ (j < i \/ (j = i /\ pc = "error"))

\* the loop body appended a record for position j of subset
HasRecord(j) == j \in DOMAIN subset /\ j < i /\ j <= Len(puzzles)

\* a text of decimal digits only, and its value
PlainDigits(s) == s # <<>> /\ \A k \in 1..Len(s) : s[k] \in Digits

RECURSIVE Pow10(_)
Pow10(n) == IF n = 0 THEN 1 ELSE 10 * Pow10(n - 1)

RECURSIVE Decimal(_)
Decimal(s) ==
  IF s = <<>> THEN 0
  ELSE DigitVal(Head(s)) * Pow10(Len(s) - 1) + Decimal(Tail(s))

\* a field the Mapper accepts at index 3 or 4
EmptyOrInt(s) == s = <<>> \/ IsIntLiteral(s)

\* a row the Mapper cannot convert
Unmappable(r) ==
  \/ Len(r) < 5
  \/ ~EmptyOrInt(r[4])
  \/ ~EmptyOrInt(r[5])

RowsLine == [line |-> "Rows with solution:", n |-> Len(rows_with_solution)]

\* ------------------------------------------------------------------ C1
\* C1: a run that completes writes an array whose length is
\* min(N, number of input rows whose index 2 is non-blank after trimming).
C1_OutputLength ==
  pc = "done" =>
    /\ out_file.exists
    /\ Len(out_file.data) =
         (IF num_puzzles <= QualCount THEN num_puzzles ELSE QualCount)

\* fewer rows qualify than N, and the output has the qualifying count
C1_Witness ==
  /\ pc = "done"
  /\ QualCount >= 1
  /\ QualCount < num_puzzles
  /\ Len(rows) > QualCount
  /\ Len(out_file.data) = QualCount

\* ------------------------------------------------------------------ C2
\* C2: every record of the output has a non-empty solution array; only
\* rows whose index 2 exists and holds a non-whitespace character pass the
\* Filter, and such a field always splits into at least one move token.
C2_SolutionNonEmpty ==
  /\ \A j \in DOMAIN rows_with_solution : Qualifies(rows_with_solution[j])
  /\ \A j \in DOMAIN puzzles :
       /\ Len(puzzles[j].solution) >= 1
       /\ \A t \in DOMAIN puzzles[j].solution :
            /\ puzzles[j].solution[t] # <<>>
            /\ \A k \in DOMAIN puzzles[j].solution[t] :
                 ~IsSpace(puzzles[j].solution[t][k])
       /\ Qualifies(SubsetRow(j))
  /\ \A j \in DOMAIN out_file.data : Len(out_file.data[j].solution) >= 1
  /\ \A k \in DOMAIN rows :
       (pc # "filter" /\ ~Qualifies(rows[k])) =>
          \A j \in DOMAIN rows_with_solution : rows_with_solution[j] # rows[k]

\* a written record whose field 2 had surrounding whitespace
C2_Witness ==
  /\ pc = "done"
  /\ Len(out_file.data) = 1
  /\ IsSpace(Head(Field(rows[1], 2)))
  /\ Len(out_file.data[1].solution) = 1
  /\ Len(out_file.data[1].solution[1]) < Len(Field(rows[1], 2))

\* ------------------------------------------------------------------ C3
\* C3: the Sampler picks rows of the filtered sequence only and never the
\* same position twice, so two records share an id only if two distinct
\* filtered rows carry that id.
C3_WithoutReplacement ==
  /\ \A a \in DOMAIN subset : subset[a] \in DOMAIN rows_with_solution
  /\ \A a, b \in DOMAIN subset : a # b => subset[a] # subset[b]
  /\ Len(subset) <= Len(rows_with_solution)
  /\ \A a, b \in DOMAIN puzzles :
       (a # b /\ puzzles[a].id = puzzles[b].id) =>
          \E p, q \in DOMAIN rows_with_solution :
             /\ p # q
             /\ rows_with_solution[p][1] = puzzles[a].id
             /\ rows_with_solution[q][1] = puzzles[a].id

\* a proper sample of a population with duplicate ids, both picked
C3_Witness ==
  /\ pc = "done"
  /\ Len(rows_with_solution) = 3
  /\ Len(out_file.data) = 2
  /\ out_file.data[1].id = out_file.data[2].id
  /\ \E p \in DOMAIN rows_with_solution :
        rows_with_solution[p][1] # out_file.data[1].id

\* ------------------------------------------------------------------ C4
\* C4: the Filter keeps exactly the rows whose index 2 exists and is
\* non-blank, in input order, and the console reports their count.
C4_FilterExact ==
  pc # "filter" =>
    /\ Len(rows_with_solution) = QualCount
    /\ \A j \in DOMAIN rows_with_solution :
         rows_with_solution[j] = rows[NthQual(j)]
    /\ Len(console) >= 1
    /\ console[1] = [line |-> "Rows with solution:", n |-> QualCount]

\* a dropped row between two different kept rows, and a smaller sample
C4_Witness ==
  /\ pc = "done"
  /\ Len(rows) = 3
  /\ QualIdx = {1, 3}
  /\ rows[1] # rows[3]
  /\ rows_with_solution = <<rows[1], rows[3]>>
  /\ console[1].n = 2
  /\ Len(puzzles) = 1

\* ------------------------------------------------------------------ C5
\* C5: for a sampled row, an empty field 3 (4) gives rating (plays) null,
\* a valid integer text gives that integer and not a text, and a non-empty
\* text that is not a valid integer gives no record but a fatal error.
C5_Field(f, v, j) ==
  /\ (f = <<>> /\ HasRecord(j)) => v = JNull
  /\ (f # <<>> /\ HasRecord(j)) => v.type = "int"
  /\ (PlainDigits(f) /\ HasRecord(j)) => v = JInt(Decimal(f))
  /\ (f # <<>> /\ ~NonBlank(f)) => ~HasRecord(j)
  /\ (f # <<>> /\ ~IsIntLiteral(f)) =>
        /\ ~HasRecord(j)
        /\ pc = "error"
        /\ err = "ValueError"

C5_OptionalIntegers ==
  \A j \in DOMAIN subset :
    Acted(j) =>
      LET r == SubsetRow(j)
      IN /\ Len(r) > 3 =>
              C5_Field(r[4], IF HasRecord(j) THEN puzzles[j].rating ELSE JNull, j)
         /\ Len(r) > 4 =>
              C5_Field(r[5], IF HasRecord(j) THEN puzzles[j].plays ELSE JNull, j)

\* a record with an integer rating read from "11" and a null plays
C5_Witness ==
  /\ pc = "done"
  /\ Len(out_file.data) = 1
  /\ Field(rows[1], 3) = <<"1", "1">>
  /\ Field(rows[1], 4) = <<>>
  /\ out_file.data[1].rating = JInt(11)
  /\ out_file.data[1].plays = JNull

\* ------------------------------------------------------------------ C6
\* C6 as stated: every filtered row shorter than 8 fields, or with an
\* empty field 7, yields a record with themes [] and never an error.
C6_Original ==
  \A j \in DOMAIN subset :
    Acted(j) =>
      LET r == SubsetRow(j)
      IN (Len(r) < 8 \/ r[8] = <<>>) =>
           /\ HasRecord(j)
           /\ puzzles[j].themes = <<>>

\* C6 amended: such a row yields a record with themes [] whenever it has
\* at least 5 fields and fields 3 and 4 are each empty or an integer; a
\* row of 3 or 4 fields yields no record but an error.
C6_Amended ==
  \A j \in DOMAIN subset :
    Acted(j) =>
      LET r == SubsetRow(j)
      IN (Len(r) < 8 \/ r[8] = <<>>) =>
           /\ HasRecord(j) => puzzles[j].themes = <<>>
           /\ (Len(r) >= 5 /\ EmptyOrInt(r[4]) /\ EmptyOrInt(r[5]))
                 => HasRecord(j)
           /\ Len(r) < 5 =>
                 /\ ~HasRecord(j)
                 /\ pc = "error"
                 /\ err \in {"IndexError", "ValueError"}

\* a five-field row written with an empty themes array
C6_Witness ==
  /\ pc = "done"
  /\ Len(rows[1]) = 5
  /\ Len(out_file.data) = 1
  /\ out_file.data[1].themes = <<>>

\* ------------------------------------------------------------------ C7
\* C7: for every row converted into a record, url is null exactly when
\* the row has fewer than 9 fields, and field 8 verbatim otherwise (an
\* empty field 8 gives the empty text, not null).
C7_Url ==
  \A j \in DOMAIN puzzles :
    LET r == SubsetRow(j)
    IN /\ (puzzles[j].url = JNull) <=> (Len(r) < 9)
       /\ Len(r) >= 9 => puzzles[j].url = JStr(r[9])

\* a nine-field row with an empty field 8, written with url ""
C7_Witness ==
  /\ pc = "done"
  /\ Len(rows[1]) = 9
  /\ rows[1][9] = <<>>
  /\ Len(out_file.data) = 1
  /\ out_file.data[1].url = JStr(<<>>)

\* ------------------------------------------------------------------ C8
\* C8: with zero qualifying rows the run never errs, always has a next
\* step until it is done, writes an empty array and reports 0 and 0.
C8_NoQualifyingRows ==
  QualCount = 0 =>
    /\ pc # "error"
    /\ pc # "done" => ENABLED Next
    /\ pc = "done" =>
         /\ out_file = [exists |-> TRUE, data |-> <<>>]
         /\ ~out_open
         /\ console = <<[line |-> "Rows with solution:", n |-> 0],
                        [line |-> "Saved", n |-> 0]>>

\* a finished run over a short row and a row with a blank field 2
C8_Witness ==
  /\ pc = "done"
  /\ QualCount = 0
  /\ num_puzzles >= 1
  /\ \E k \in DOMAIN rows : Len(rows[k]) < 3
  /\ \E k \in DOMAIN rows : Len(rows[k]) >= 3 /\ ~NonBlank(rows[k][3])
  /\ out_file.data = <<>>

\* ------------------------------------------------------------------ C9
\* a row whose fields 2 and 3 are non-numeric words
HeaderLike(r) ==
  /\ Len(r) > 3
  /\ \A f \in {r[3], r[4]} :
       f # <<>> /\ \A k \in 1..Len(f) : f[k] \notin Digits \cup Whitespace

\* C9 as stated: a header row with non-numeric fields never passes the
\* Filter, so it is never counted, sampled or mapped.
C9_HeaderFiltered ==
  /\ \A j \in DOMAIN rows_with_solution : ~HeaderLike(rows_with_solution[j])
  /\ (pc # "filter" /\ \E k \in DOMAIN rows : HeaderLike(rows[k])) =>
        console[1].n < Len(rows)

\* ----------------------------------------------------------------- C10
\* C10: the Writer starts only after every sampled row is mapped; when a
\* sampled row cannot be mapped the output file is never opened or
\* written and "Saved" is never printed, while the "Rows with solution"
\* line has been printed.
C10_AllOrNothing ==
  /\ (out_open \/ out_file.exists \/ Len(console) > 1) =>
        /\ pc \in {"dump", "saved", "done"}
        /\ Len(puzzles) = Len(subset)
        /\ i = Len(subset) + 1
  /\ (\E j \in DOMAIN subset : Unmappable(SubsetRow(j))) =>
        /\ pc \in {"map", "error"}
        /\ pc = "map" => i <= Len(subset)
        /\ ~out_open
        /\ out_file = NoFile
        /\ console = <<RowsLine>>
  /\ pc = "error" =>
        /\ ~out_open
        /\ out_file = NoFile
        /\ console = <<RowsLine>>
        /\ Acted(i)
        /\ Unmappable(SubsetRow(i))

\* an abort after one record was already mapped
C10_Witness ==
  /\ pc = "error"
  /\ Len(puzzles) >= 1
  /\ Len(subset) > Len(puzzles)
  /\ out_file = NoFile
  /\ Len(console) = 1

====
